---- MODULE Spec2Model ----
(***************************************************************************)
(* go-websocket: the upgrade handshake, the frame codec (readFrame,        *)
(* writeFrame, writeCloseFrame) and the per-connection read/dispatch/write *)
(* loop of websocketHandler (src/main.go).                                 *)
(*                                                                         *)
(* A byte is a number in 0..255, a byte stream a sequence of bytes.  Each  *)
(* connection c has an inbound stream inp[c] (what the peer has sent so    *)
(* far, read through the bufio.ReadWriter of Hijack) of which pos[c] bytes *)
(* have been consumed, and an outbound stream out[c] (what conn.Write has  *)
(* accepted).                                                              *)
(***************************************************************************)
EXTENDS Integers, Sequences, FiniteSets, TLC

VARIABLES
    pc,        \* per connection: position of its handler goroutine
    req,       \* per connection: the request headers (Connection, Upgrade, Key)
    whCalls,   \* per connection: the status codes passed to WriteHeader, in order
    respHdr,   \* per connection: the response headers set with w.Header().Set
    errBody,   \* per connection: the message http.Error was called with ("" if none)
    hijacked,  \* per connection: Hijack succeeded, the handler owns the raw stream
    inp,       \* per connection: bytes the peer has sent
    eof,       \* per connection: the peer has ended its side (EOF / read error)
    pos,       \* per connection: number of bytes of inp consumed by readFrame
    op,        \* per connection: local op of the loop (opcode passed to writeFrame)
    payload,   \* per connection: payload passed to writeFrame
    closing,   \* per connection: the loop is in the close-reply branch
    out,       \* per connection: bytes written to conn
    closed,    \* per connection: number of conn.Close() calls
    sent,      \* history: the frames the peer has sent completely, in order
    frames,    \* history: one record per readFrame call that returned
    calls,     \* history: one record per writeFrame call
    werr,      \* history: a write on this connection has failed
    rtPc,      \* codec: position of the writing pipeline ("off" when unused)
    rtOp,      \* codec: opcode given to writeFrame
    rtPayload, \* codec: payload given to writeFrame
    rtWire,    \* codec: bytes writeFrame wrote (SpecMask: payload unmasked once)
    rtRes,     \* codec: what readFrame returned
    rtIn,      \* codec: the inputs drawn in the initial state
    rtPeer,    \* codec: bytes a peer put on the inbound stream
    rtEpc,     \* codec: position of the read-and-reply pipeline
    rtOut      \* codec: bytes written in reply to rtPeer (SpecMask: unmasked twice)

connVars == <<pc, req, whCalls, respHdr, errBody, hijacked, inp, eof, pos, op,
              payload, closing, out, closed, sent, frames, calls, werr>>
rtVars == <<rtPc, rtOp, rtPayload, rtWire, rtRes, rtIn, rtPeer, rtEpc, rtOut>>
vars == <<pc, req, whCalls, respHdr, errBody, hijacked, inp, eof, pos, op,
          payload, closing, out, closed, sent, frames, calls, werr,
          rtPc, rtOp, rtPayload, rtWire, rtRes, rtIn, rtPeer, rtEpc, rtOut>>

(***************************************************************************)
(* Bounds of the model.                                                    *)
(***************************************************************************)
MaxFrames == 2      \* frames a peer sends on one connection
MaxPayload == 5     \* longest payload of a peer frame in the connection model
MaxMaskLen == 6     \* longest payload the unmasking step is applied to on its own
MaxReason == 4      \* longest reason given to writeCloseFrame on its own

(***************************************************************************)
(* Program constants.                                                      *)
(***************************************************************************)
finBit == 128
maskedBit == 128
opClose == 8
StatusBadRequest == 400
StatusSwitchingProtocols == 101
StatusInternalServerError == 500
magicGUID == "258EAFA5-E914-47DA-95CA-C5AB0DC85B11"

(***************************************************************************)
(* Bit operations on bytes: a ^ b, the test b & bit != 0 for a single bit, *)
(* and b & mask for a mask of low bits (0x0F, 0x7F).                       *)
(***************************************************************************)
RECURSIVE Xor(_, _)
Xor(a, b) ==
    IF a = 0 THEN b
    ELSE IF b = 0 THEN a
    ELSE (((a % 2) + (b % 2)) % 2) + 2 * Xor(a \div 2, b \div 2)

TestBit(b, bit) == (b \div bit) % 2 = 1
LowBits(b, mask) == b % (mask + 1)

Prefix(s, n) == SubSeq(s, 1, n)
Drop(s, n) == SubSeq(s, n + 1, Len(s))
IsPrefix(s, t) == Len(s) <= Len(t) /\ s = SubSeq(t, 1, Len(s))

(***************************************************************************)
(* io.ReadFull(r, buf) with len(buf) = n on a stream that has `avail`      *)
(* unread bytes: it returns nil once n bytes are there (at once for n = 0),*)
(* an error when the stream ends before that, and blocks otherwise.        *)
(***************************************************************************)
ReadFull(avail, n, atEOF) ==
    IF avail >= n THEN "ok"
    ELSE IF atEOF THEN "err"
    ELSE "block"

(***************************************************************************)
(* The unmasking loop of readFrame: payload[i] ^= maskingKey[i%4], with    *)
(* i counted from 0.                                                       *)
(***************************************************************************)
(* a key index that runs one byte ahead *)
KeyIndexOneAhead(i) == ((i + 1) % 4) + 1

KeyIndex(i) == (i % 4) + 1

(* an unmasking loop that starts at the second byte *)
UnmaskFromOne(data, maskingKey) ==
    [i \in 1..Len(data) |->
        IF i = 1 THEN data[i] ELSE Xor(data[i], maskingKey[KeyIndex(i - 1)])]

Unmask(data, maskingKey) ==
    [i \in 1..Len(data) |-> Xor(data[i], maskingKey[KeyIndex(i - 1)])]

(***************************************************************************)
(* The number of extended-length bytes readFrame reads for a 7-bit length, *)
(* and the payload length it takes from them: 126 -> 2 bytes big-endian,   *)
(* 127 -> 8 bytes of which only ext[4..7] are used.                        *)
(***************************************************************************)
ExtLen(len7) == IF len7 = 126 THEN 2 ELSE IF len7 = 127 THEN 8 ELSE 0

PayloadLen(len7, ext) ==
    IF len7 = 126 THEN ext[1] * 256 + ext[2]
    ELSE IF len7 = 127
         THEN ext[5] * 16777216 + ext[6] * 65536 + ext[7] * 256 + ext[8]
         ELSE len7

(***************************************************************************)
(* The opcode on which readFrame returns right after the 2 header bytes.   *)
(***************************************************************************)
(* a decoder that reads a masking key from every frame *)
MaskKeyLenAlways(masked) == 4

(* the masking key is read only if the MASK bit is set *)
MaskKeyLen(masked) == IF masked THEN 4 ELSE 0

ReturnsAtHeader(opcode) == opcode = opClose

(***************************************************************************)
(* The error readFrame ends with after the payload: none for a final       *)
(* frame, "fragmented frames not supported yet" otherwise.                 *)
(***************************************************************************)
FinCheck(fin) == IF fin THEN "ok" ELSE "frag"

(***************************************************************************)
(* readFrame on a stream whose unread, already received bytes are buf.     *)
(* st is "ok" (err == nil), "err" (an io.ReadFull error), "frag" (the      *)
(* fragmentation error) or "block" (a read waits for more bytes); n is the *)
(* number of bytes taken from the stream.                                  *)
(***************************************************************************)
readFrame(buf, atEOF) ==
    LET avail == Len(buf)
        Stop(opc, f, st) ==
            [st |-> st, opcode |-> opc, payload |-> <<>>, fin |-> f,
             n |-> IF st = "block" THEN 0 ELSE avail]
        r1 == ReadFull(avail, 2, atEOF)
    IN
    IF r1 # "ok" THEN Stop(0, FALSE, r1)
    ELSE
    LET header == SubSeq(buf, 1, 2)
        fin == TestBit(header[1], finBit)
        opcode == LowBits(header[1], 15)
        masked == TestBit(header[2], maskedBit)
        len7 == LowBits(header[2], 127)
    IN
    IF ReturnsAtHeader(opcode)
    THEN [st |-> "ok", opcode |-> opcode, payload |-> <<>>, fin |-> fin, n |-> 2]
    ELSE
    LET extN == ExtLen(len7)
        r2 == ReadFull(avail - 2, extN, atEOF)
    IN
    IF r2 # "ok" THEN Stop(opcode, fin, r2)
    ELSE
    LET ext == SubSeq(buf, 3, 2 + extN)
        payloadLen == PayloadLen(len7, ext)
        keyN == MaskKeyLen(masked)
        r3 == ReadFull(avail - 2 - extN, keyN, atEOF)
    IN
    IF r3 # "ok" THEN Stop(opcode, fin, r3)
    ELSE
    LET maskingKey == SubSeq(buf, 3 + extN, 2 + extN + keyN)
        r4 == ReadFull(avail - 2 - extN - keyN, payloadLen, atEOF)
    IN
    IF r4 # "ok" THEN Stop(opcode, fin, r4)
    ELSE
    LET raw == SubSeq(buf, 3 + extN + keyN, 2 + extN + keyN + payloadLen)
    IN  [st |-> FinCheck(fin),
         opcode |-> opcode,
         payload |-> IF masked THEN Unmask(raw, maskingKey) ELSE raw,
         fin |-> fin,
         n |-> 2 + extN + keyN + payloadLen]

(***************************************************************************)
(* writeFrame: the header bytes it builds for an opcode and a payload      *)
(* length.  0x80 | opcode sets the FIN bit.                                *)
(***************************************************************************)
(* a writer that leaves the FIN bit out *)
FirstByteNoFin(opcode) == opcode

FirstByte(opcode) == IF TestBit(opcode, 128) THEN opcode ELSE 128 + opcode

LowByte(x) == x % 256

LengthBytes(payloadLen) ==
    IF payloadLen < 126 THEN <<LowByte(payloadLen)>>
    ELSE IF payloadLen <= 65535
         THEN <<126, LowByte(payloadLen \div 256), LowByte(payloadLen)>>
         ELSE <<127, 0, 0, 0, 0,
                LowByte(payloadLen \div 16777216), LowByte(payloadLen \div 65536),
                LowByte(payloadLen \div 256), LowByte(payloadLen)>>

FrameHeader(opcode, payloadLen) == <<FirstByte(opcode)>> \o LengthBytes(payloadLen)

(* All the bytes one successful writeFrame call puts on the stream. *)
writeFrame(opcode, data) == FrameHeader(opcode, Len(data)) \o data

(***************************************************************************)
(* writeCloseFrame: the payload it builds, and the reply of the loop,      *)
(* writeCloseFrame(conn, 0x8, "bye").                                      *)
(***************************************************************************)
(* the status code written low byte first *)
ClosePayloadLittleEndian(code, reason) ==
    <<LowByte(code), LowByte(code \div 256)>> \o reason

ClosePayload(code, reason) ==
    <<LowByte(code \div 256), LowByte(code)>> \o reason

byeReason == <<98, 121, 101>>
closeReplyCode == 8
writeCloseFrame(code, reason) == writeFrame(opClose, ClosePayload(code, reason))

(***************************************************************************)
(* The peer.  A peer frame is described by its fields and laid out on the  *)
(* wire as the frame diagram in readFrame shows: FIN/opcode, MASK/7-bit    *)
(* length, extended length (form 16 or 64), masking key, masked payload.   *)
(* A peer may use a longer length form than the payload needs.             *)
(***************************************************************************)
Conns == {1, 2}
Text == <<104, 101, 108, 108, 111, 33, 119>>          \* "hello!w"
PeerKey == <<55, 250, 33, 61>>
PeerPayload(n) == [i \in 1..n |-> Text[((i - 1) % Len(Text)) + 1]]

PeerMask(data, key) == [i \in 1..Len(data) |-> Xor(data[i], key[((i - 1) % 4) + 1])]

PeerLen7(f) == IF f.form = 16 THEN 126 ELSE IF f.form = 64 THEN 127 ELSE Len(f.data)

PeerExt(f) ==
    LET l == Len(f.data) IN
    IF f.form = 16 THEN <<(l \div 256) % 256, l % 256>>
    ELSE IF f.form = 64
         THEN <<0, 0, 0, 0, (l \div 16777216) % 256, (l \div 65536) % 256,
                (l \div 256) % 256, l % 256>>
         ELSE <<>>

PeerBytes(f) ==
    <<(IF f.fin THEN 128 ELSE 0) + f.opcode,
      (IF f.masked THEN 128 ELSE 0) + PeerLen7(f)>>
    \o PeerExt(f)
    \o (IF f.masked THEN PeerKey \o PeerMask(f.data, PeerKey) ELSE f.data)

(* The length of a peer frame on the wire, from its fields. *)
PeerSize(f) ==
    2 + (IF f.form = 16 THEN 2 ELSE IF f.form = 64 THEN 8 ELSE 0)
      + (IF f.masked THEN 4 ELSE 0) + Len(f.data)

PeerFrames(fins, opcodes, masks, forms, lens) ==
    {[fin |-> fi, opcode |-> o, masked |-> m, form |-> fo, data |-> PeerPayload(l)] :
        fi \in fins, o \in opcodes, m \in masks, fo \in forms, l \in lens}

(* text and close frames, final or not, masked or not, in every length form,
   and a masked ping *)
RichFrames ==
    PeerFrames(BOOLEAN, {1, 8}, BOOLEAN, {7}, {0, MaxPayload})
    \cup PeerFrames(BOOLEAN, {1, 8}, BOOLEAN, {16, 64}, {MaxPayload})
    \cup PeerFrames(BOOLEAN, {9}, {TRUE}, {7}, {MaxPayload})

(* the frames of the handshake and the two-connection models *)
FewFrames == PeerFrames(BOOLEAN, {1, 8}, {TRUE}, {7}, {1})

(* the frames of the two-connection model: a text frame and a close frame *)
ConcFrames == PeerFrames({TRUE}, {1, 8}, {TRUE}, {7}, {1})

(* What a peer may still send of a frame before it ends its side: nothing,
   or a frame cut off at any byte.  The cut frame has every part of a frame. *)
ProperPrefixes(b) == {Prefix(b, k) : k \in 0..(Len(b) - 1)}
Cuts(F) == UNION {ProperPrefixes(PeerBytes(f)) : f \in F}
RichCuts == Cuts(PeerFrames({TRUE}, {1}, {TRUE}, {16}, {MaxPayload}))
FewCuts == {<<>>, <<129>>}
NoCuts == {<<>>}

(***************************************************************************)
(* crypto/sha1 (h.Write, h.Sum) and encoding/base64 (StdEncoding), as the  *)
(* handshake uses them, on byte sequences.  Intermediate values are forced *)
(* (IF Len(..) = ..) before the next step takes them.                      *)
(***************************************************************************)
RECURSIVE And(_, _)
And(a, b) ==
    IF a = 0 \/ b = 0 THEN 0
    ELSE ((a % 2) * (b % 2)) + 2 * And(a \div 2, b \div 2)

RECURSIVE Pow2(_)
Pow2(n) == IF n = 0 THEN 1 ELSE 2 * Pow2(n - 1)

(* A 32-bit word is a pair <<upper 16 bits, lower 16 bits>>. *)
WXor(u, v) == <<Xor(u[1], v[1]), Xor(u[2], v[2])>>
WAnd(u, v) == <<And(u[1], v[1]), And(u[2], v[2])>>
WAdd(u, v) ==
    LET lo == u[2] + v[2] IN <<(u[1] + v[1] + (lo \div 65536)) % 65536, lo % 65536>>
(* rotate left by n bits, 0 < n < 16 *)
RotlShort(u, n) ==
    <<((u[1] * Pow2(n)) % 65536) + (u[2] \div Pow2(16 - n)),
      ((u[2] * Pow2(n)) % 65536) + (u[1] \div Pow2(16 - n))>>
Rotl(u, n) == IF n < 16 THEN RotlShort(u, n) ELSE RotlShort(<<u[2], u[1]>>, n - 16)

SHA1Init == <<<<26437, 8961>>, <<61389, 43913>>, <<39098, 56574>>, <<4146, 21622>>,
              <<50130, 57840>>>>
SHA1K(t) ==
    IF t < 20 THEN <<23170, 31129>>
    ELSE IF t < 40 THEN <<28377, 60321>>
    ELSE IF t < 60 THEN <<36635, 48348>>
    ELSE <<51810, 49622>>
SHA1F(t, b, c, d) ==
    IF t < 20 THEN WXor(d, WAnd(b, WXor(c, d)))
    ELSE IF t >= 40 /\ t < 60 THEN WXor(WXor(WAnd(b, c), WAnd(b, d)), WAnd(c, d))
    ELSE WXor(WXor(b, c), d)

(* message padding: 0x80, zeros up to 56 mod 64, the bit length in 8 bytes *)
SHA1Pad(msg) ==
    LET n == Len(msg)
        z == (119 - (n % 64)) % 64
        bits == 8 * n
    IN  msg \o <<128>> \o [i \in 1..z |-> 0]
        \o <<0, 0, 0, 0, (bits \div 16777216) % 256, (bits \div 65536) % 256,
             (bits \div 256) % 256, bits % 256>>

SHA1Word(bytes, i) ==
    <<bytes[4 * i - 3] * 256 + bytes[4 * i - 2], bytes[4 * i - 1] * 256 + bytes[4 * i]>>

(* the message schedule: words lo..hi appended to the words before them *)
RECURSIVE SHA1Schedule(_, _, _)
SHA1Schedule(w, lo, hi) ==
    IF lo > hi THEN w
    ELSE IF lo = hi
         THEN Append(w, Rotl(WXor(WXor(w[lo - 3], w[lo - 8]),
                                  WXor(w[lo - 14], w[lo - 16])), 1))
         ELSE LET mid == (lo + hi) \div 2
                  half == SHA1Schedule(w, lo, mid)
              IN  IF Len(half) = mid THEN SHA1Schedule(half, mid + 1, hi) ELSE half

SHA1Round(t, s, w) ==
    LET tmp == WAdd(WAdd(WAdd(Rotl(s[1], 5), SHA1F(t, s[2], s[3], s[4])),
                         WAdd(s[5], SHA1K(t))), w[t + 1])
    IN  <<tmp, s[1], Rotl(s[2], 30), s[3], s[4]>>

(* rounds lo..hi applied to the state s *)
RECURSIVE SHA1Rounds(_, _, _, _)
SHA1Rounds(lo, hi, s, w) ==
    IF lo = hi THEN SHA1Round(lo, s, w)
    ELSE LET mid == (lo + hi) \div 2
             half == SHA1Rounds(lo, mid, s, w)
         IN  IF Len(half) = 5 THEN SHA1Rounds(mid + 1, hi, half, w) ELSE half

SHA1Block(h, block) ==
    LET w == SHA1Schedule([i \in 1..16 |-> SHA1Word(block, i)], 17, 80)
        s == IF Len(w) = 80 THEN SHA1Rounds(0, 79, h, w) ELSE h
    IN  <<WAdd(h[1], s[1]), WAdd(h[2], s[2]), WAdd(h[3], s[3]), WAdd(h[4], s[4]),
          WAdd(h[5], s[5])>>

RECURSIVE SHA1Blocks(_, _)
SHA1Blocks(h, bytes) ==
    IF bytes = <<>> THEN h
    ELSE LET next == SHA1Block(h, SubSeq(bytes, 1, 64))
         IN  IF Len(next) = 5 THEN SHA1Blocks(next, SubSeq(bytes, 65, Len(bytes)))
             ELSE next

SHA1Sum(msg) ==
    LET h == SHA1Blocks(SHA1Init, SHA1Pad(msg))
    IN  [i \in 1..20 |->
            LET wd == h[((i - 1) \div 4) + 1]
                half == IF ((i - 1) % 4) < 2 THEN wd[1] ELSE wd[2]
            IN  IF (i % 2) = 1 THEN half \div 256 ELSE half % 256]

(* base64.StdEncoding: alphabet A-Z a-z 0-9 + /, padding = *)
Base64Char(v) ==
    IF v < 26 THEN 65 + v
    ELSE IF v < 52 THEN 97 + (v - 26)
    ELSE IF v < 62 THEN 48 + (v - 52)
    ELSE IF v = 62 THEN 43 ELSE 47

RECURSIVE Base64(_)
Base64(b) ==
    IF b = <<>> THEN <<>>
    ELSE IF Len(b) = 1
         THEN <<Base64Char(b[1] \div 4), Base64Char((b[1] % 4) * 16), 61, 61>>
    ELSE IF Len(b) = 2
         THEN <<Base64Char(b[1] \div 4), Base64Char((b[1] % 4) * 16 + (b[2] \div 16)),
                Base64Char((b[2] % 16) * 4), 61>>
    ELSE <<Base64Char(b[1] \div 4), Base64Char((b[1] % 4) * 16 + (b[2] \div 16)),
           Base64Char((b[2] % 16) * 4 + (b[3] \div 64)), Base64Char(b[3] % 64)>>
         \o Base64(SubSeq(b, 4, Len(b)))

(***************************************************************************)
(* Requests: the three headers the handler reads with r.Header.Get (an     *)
(* absent header reads as "").                                             *)
(***************************************************************************)
SampleKey == "dGhlIHNhbXBsZSBub25jZQ=="
OtherKey == "x3JJHMbDL1EzLkh9GBhXDw=="
ShortKey == "a"
Keys == {SampleKey, OtherKey, ShortKey}
Requests(cs, us, ks) ==
    {[Connection |-> cv, Upgrade |-> uv, Key |-> kv] : cv \in cs, uv \in us, kv \in ks}

RichRequests ==
    Requests({"Upgrade", "upgrade", "keep-alive, Upgrade", ""},
             {"websocket", "WebSocket", ""}, Keys \cup {""})
OneRequest == Requests({"Upgrade"}, {"websocket"}, {SampleKey})

NoRequest == [Connection |-> "", Upgrade |-> "", Key |-> ""]

(***************************************************************************)
(* websocketHandler, handshake part.                                       *)
(***************************************************************************)
(* both headers must be wrong for the request to be refused *)
IsUpgradeRequestEither(r) == ~(r.Connection # "Upgrade" /\ r.Upgrade # "websocket")

IsUpgradeRequest(r) == ~(r.Connection # "Upgrade" \/ r.Upgrade # "websocket")
HasKey(r) == r.Key # ""

(* []byte(s) for the strings of the model *)
Bytes(str) ==
    CASE str = SampleKey ->
            <<100, 71, 104, 108, 73, 72, 78, 104, 98, 88, 66, 115, 90, 83, 66, 117,
              98, 50, 53, 106, 90, 81, 61, 61>>
      [] str = OtherKey ->
            <<120, 51, 74, 74, 72, 77, 98, 68, 76, 49, 69, 122, 76, 107, 104, 57,
              71, 66, 104, 88, 68, 119, 61, 61>>
      [] str = ShortKey -> <<97>>
      [] str = magicGUID ->
            <<50, 53, 56, 69, 65, 70, 65, 53, 45, 69, 57, 49, 52, 45, 52, 55, 68, 65,
              45, 57, 53, 67, 65, 45, 67, 53, 65, 66, 48, 68, 67, 56, 53, 66, 49, 49>>
      [] OTHER -> <<>>

(* a handshake that hashes the key alone *)
ComputeAcceptKeyNoGUID(secWebSocketKey) ==
    Base64(SHA1Sum(Bytes(secWebSocketKey)))

(* base64(sha1(key + magicGUID)), as the bytes of the header value *)
ComputeAcceptKey(secWebSocketKey) ==
    Base64(SHA1Sum(Bytes(secWebSocketKey) \o Bytes(magicGUID)))

(* computed once for each key of the model *)
AcceptKeys == [k \in Keys |-> ComputeAcceptKey(k)]
AcceptKey(secWebSocketKey) == AcceptKeys[secWebSocketKey]

UpgradeHeaders(r) ==
    {<<"Upgrade", "websocket">>, <<"Connection", "Upgrade">>,
     <<"Sec-WebSocket-Accept", AcceptKey(r.Key)>>}

(***************************************************************************)
(* Initial state: no request has arrived on any connection.                *)
(***************************************************************************)
ConnInit ==
    /\ pc = [c \in Conns |-> "idle"]
    /\ req = [c \in Conns |-> NoRequest]
    /\ whCalls = [c \in Conns |-> <<>>]
    /\ respHdr = [c \in Conns |-> {}]
    /\ errBody = [c \in Conns |-> ""]
    /\ hijacked = [c \in Conns |-> FALSE]
    /\ inp = [c \in Conns |-> <<>>]
    /\ eof = [c \in Conns |-> FALSE]
    /\ pos = [c \in Conns |-> 0]
    /\ op = [c \in Conns |-> 0]
    /\ payload = [c \in Conns |-> <<>>]
    /\ closing = [c \in Conns |-> FALSE]
    /\ out = [c \in Conns |-> <<>>]
    /\ closed = [c \in Conns |-> 0]
    /\ sent = [c \in Conns |-> <<>>]
    /\ frames = [c \in Conns |-> <<>>]
    /\ calls = [c \in Conns |-> <<>>]
    /\ werr = [c \in Conns |-> FALSE]

NoReply ==
    /\ rtIn = [kind |-> "none"]
    /\ rtPeer = <<>>
    /\ rtEpc = "off"
    /\ rtOut = <<>>

RTOff ==
    /\ rtPc = "off"
    /\ rtOp = 0
    /\ rtPayload = <<>>
    /\ rtWire = <<>>
    /\ rtRes = [st |-> "none"]
    /\ NoReply

Init == ConnInit /\ RTOff

(***************************************************************************)
(* The peer: sends the upgrade request, sends whole frames (at most        *)
(* MaxFrames, the last one possibly cut off), or ends its side of the      *)
(* stream.  An early peer sends frames right behind its request, the       *)
(* others wait for the switch of protocols.  Nothing reaches a connection  *)
(* the server has closed.                                                  *)
(***************************************************************************)
PeerRequest(c, R) ==
    /\ pc[c] = "idle"
    /\ \E r \in R : req' = [req EXCEPT ![c] = r]
    /\ pc' = [pc EXCEPT ![c] = "handler"]
    /\ UNCHANGED <<whCalls, respHdr, errBody, hijacked, inp, eof, pos, op, payload,
                   closing, out, closed, sent, frames, calls, werr>>
    /\ UNCHANGED rtVars

PeerSend(c, F, early) ==
    /\ pc[c] # "idle"
    /\ early \/ hijacked[c]
    /\ ~eof[c]
    /\ closed[c] = 0
    /\ Len(sent[c]) < MaxFrames
    /\ \E f \in F :
          /\ inp' = [inp EXCEPT ![c] = @ \o PeerBytes(f)]
          /\ sent' = [sent EXCEPT ![c] = Append(@, f)]
    /\ UNCHANGED <<pc, req, whCalls, respHdr, errBody, hijacked, eof, pos, op, payload,
                   closing, out, closed, frames, calls, werr>>
    /\ UNCHANGED rtVars

PeerEnd(c, W, early) ==
    /\ pc[c] # "idle"
    /\ early \/ hijacked[c]
    /\ ~eof[c]
    /\ closed[c] = 0
    /\ \E w \in W :
          /\ w = <<>> \/ Len(sent[c]) < MaxFrames
          /\ inp' = [inp EXCEPT ![c] = @ \o w]
    /\ eof' = [eof EXCEPT ![c] = TRUE]
    /\ UNCHANGED <<pc, req, whCalls, respHdr, errBody, hijacked, pos, op, payload,
                   closing, out, closed, sent, frames, calls, werr>>
    /\ UNCHANGED rtVars

(***************************************************************************)
(* websocketHandler up to the loop: the two header checks, the 101         *)
(* response and Hijack, which gives the handler the stream or fails.       *)
(***************************************************************************)
Reject(c, code, msg) ==
    /\ whCalls' = [whCalls EXCEPT ![c] = Append(@, code)]
    /\ errBody' = [errBody EXCEPT ![c] = msg]
    /\ pc' = [pc EXCEPT ![c] = "done"]

Handshake(c) ==
    /\ pc[c] = "handler"
    /\ IF ~IsUpgradeRequest(req[c])
       THEN /\ Reject(c, StatusBadRequest, "Not a websocket upgrade request")
            /\ UNCHANGED <<respHdr, hijacked>>
       ELSE IF ~HasKey(req[c])
       THEN /\ Reject(c, StatusBadRequest, "Bad WebSocket handshake")
            /\ UNCHANGED <<respHdr, hijacked>>
       ELSE /\ respHdr' = [respHdr EXCEPT ![c] = UpgradeHeaders(req[c])]
            /\ \E ok \in BOOLEAN :
                  IF ok
                  THEN /\ whCalls' = [whCalls EXCEPT
                                        ![c] = Append(@, StatusSwitchingProtocols)]
                       /\ hijacked' = [hijacked EXCEPT ![c] = TRUE]
                       /\ pc' = [pc EXCEPT ![c] = "read"]
                       /\ UNCHANGED errBody
                  ELSE /\ whCalls' = [whCalls EXCEPT
                                        ![c] = @ \o <<StatusSwitchingProtocols,
                                                      StatusInternalServerError>>]
                       /\ errBody' = [errBody EXCEPT ![c] = "Hijack failed"]
                       /\ pc' = [pc EXCEPT ![c] = "done"]
                       /\ UNCHANGED hijacked
    /\ UNCHANGED <<req, inp, eof, pos, op, payload, closing, out, closed, sent,
                   frames, calls, werr>>
    /\ UNCHANGED rtVars

(***************************************************************************)
(* The status line of the response.  The handler calls WriteHeader(101)    *)
(* before Hijack; net/http takes 101 as the final header of a response, so *)
(* the WriteHeader(500) inside the http.Error after a failed Hijack is a   *)
(* superfluous call that changes nothing.  0 stands for no status yet.     *)
(***************************************************************************)
ObservedStatus(codes) == IF codes = <<>> THEN 0 ELSE codes[1]

(***************************************************************************)
(* The loop.  conn and rw are locals of one handler call: handler c reads  *)
(* and writes the stream of connection c.  Every return of the handler     *)
(* after Hijack runs the deferred conn.Close().                            *)
(***************************************************************************)
(* one stream shared by all handlers, as a package-level variable would be *)
StreamOfShared(c) == 1

StreamOf(c) == c

(* a handler without the deferred Close *)
DeferredCloseMissing(n) == n

DeferredClose(n) == n + 1

Return(c) ==
    /\ pc' = [pc EXCEPT ![c] = "done"]
    /\ closed' = [closed EXCEPT ![c] = DeferredClose(@)]

(* only read errors end the loop *)
IsErrReadOnly(st) == st = "err"

(* err != nil after readFrame *)
IsErr(st) == st # "ok"

(* a loop without the close branch *)
IsCloseOpNever(opcode) == FALSE

(* the branch op == 0x8 of the loop *)
IsCloseOp(opcode) == opcode = opClose

(* a writeFrame that returns after the header, and a loop that goes on
   after the close reply *)
AfterHeaderWriteReturns == "read"
AfterFrameWriteLoops(isClose) == "read"

(* where the handler goes after a write that succeeded *)
AfterHeaderWrite == "writePayload"
AfterFrameWrite(isClose) == IF isClose THEN "done" ELSE "read"

(***************************************************************************)
(* One readFrame call and the dispatch on its results: return on an error, *)
(* call writeCloseFrame(conn, 0x8, "bye") on a close frame, call           *)
(* writeFrame(conn, op, payload) otherwise.                                *)
(***************************************************************************)
ReadStep(c) ==
    /\ pc[c] = "read"
    /\ LET s == StreamOf(c)
           r == readFrame(Drop(inp[s], pos[c]), eof[s])
       IN  /\ r.st # "block"
           /\ pos' = [pos EXCEPT ![c] = @ + r.n]
           /\ frames' = [frames EXCEPT ![c] = Append(@,
                  [st |-> r.st, opcode |-> r.opcode, payload |-> r.payload,
                   fin |-> r.fin, start |-> pos[c], n |-> r.n])]
           /\ IF IsErr(r.st)
              THEN /\ Return(c)
                   /\ UNCHANGED <<op, payload, closing, calls>>
              ELSE /\ op' = [op EXCEPT ![c] =
                                IF IsCloseOp(r.opcode) THEN opClose ELSE r.opcode]
                   /\ payload' = [payload EXCEPT ![c] =
                                IF IsCloseOp(r.opcode)
                                THEN ClosePayload(closeReplyCode, byeReason)
                                ELSE r.payload]
                   /\ closing' = [closing EXCEPT ![c] = IsCloseOp(r.opcode)]
                   /\ calls' = [calls EXCEPT ![c] = Append(@,
                          [opcode |-> op'[c], payload |-> payload'[c]])]
                   /\ pc' = [pc EXCEPT ![c] = "writeHeader"]
                   /\ UNCHANGED closed
    /\ UNCHANGED <<req, whCalls, respHdr, errBody, hijacked, inp, eof, out, sent, werr>>
    /\ UNCHANGED rtVars

(***************************************************************************)
(* A conn.Write(b) that fails has put some proper prefix of b on the       *)
(* stream (nothing, for an empty b).                                       *)
(***************************************************************************)
FailedWrites(b) == {Prefix(b, k) : k \in 0..(IF Len(b) = 0 THEN 0 ELSE Len(b) - 1)}

(* a handler that carries on with the next step after a failed write *)
AfterFailedWriteGoesOn(next) == next

(* if err != nil { return err } in writeFrame, if err != nil { return } in the loop *)
AfterFailedWrite(next) == "done"

Goto(c, next) ==
    IF next = "done" THEN Return(c)
    ELSE pc' = [pc EXCEPT ![c] = next] /\ UNCHANGED closed

Write(c, b, next) ==
    \/ /\ out' = [out EXCEPT ![c] = @ \o b]
       /\ Goto(c, next)
       /\ UNCHANGED werr
    \/ /\ \E w \in FailedWrites(b) : out' = [out EXCEPT ![c] = @ \o w]
       /\ werr' = [werr EXCEPT ![c] = TRUE]
       /\ Goto(c, AfterFailedWrite(next))

(* writeFrame: w.Write(header) *)
WriteHeader(c) ==
    /\ pc[c] = "writeHeader"
    /\ Write(StreamOf(c), FrameHeader(op[c], Len(payload[c])), AfterHeaderWrite)
    /\ UNCHANGED <<req, whCalls, respHdr, errBody, hijacked, inp, eof, pos, op, payload,
                   closing, sent, frames, calls>>
    /\ UNCHANGED rtVars

(* writeFrame: w.Write(payload), and what the loop does when it returns *)
WritePayload(c) ==
    /\ pc[c] = "writePayload"
    /\ Write(StreamOf(c), payload[c], AfterFrameWrite(closing[c]))
    /\ UNCHANGED <<req, whCalls, respHdr, errBody, hijacked, inp, eof, pos, op, payload,
                   closing, sent, frames, calls>>
    /\ UNCHANGED rtVars

Handler(c) == Handshake(c) \/ ReadStep(c) \/ WriteHeader(c) \/ WritePayload(c)

(***************************************************************************)
(* Spec: one connection, every kind of peer frame.                         *)
(* SpecHS: one connection, every kind of request, peers that send early.   *)
(* SpecConc: two connections served concurrently.                          *)
(***************************************************************************)
Next ==
    \E c \in {1} :
        \/ PeerRequest(c, OneRequest)
        \/ PeerSend(c, RichFrames, FALSE)
        \/ PeerEnd(c, RichCuts, FALSE)
        \/ Handshake(c)
        \/ ReadStep(c)
        \/ WriteHeader(c)
        \/ WritePayload(c)

Spec == Init /\ [][Next]_vars

NextHS ==
    \E c \in {1} :
        \/ PeerRequest(c, RichRequests)
        \/ PeerSend(c, FewFrames, TRUE)
        \/ PeerEnd(c, FewCuts, TRUE)
        \/ Handshake(c)
        \/ ReadStep(c)
        \/ WriteHeader(c)
        \/ WritePayload(c)

SpecHS == Init /\ [][NextHS]_vars

NextConc ==
    \E c \in Conns :
        \/ PeerRequest(c, OneRequest)
        \/ PeerSend(c, ConcFrames, FALSE)
        \/ PeerEnd(c, NoCuts, FALSE)
        \/ Handshake(c)
        \/ ReadStep(c)
        \/ WriteHeader(c)
        \/ WritePayload(c)

SpecConc == Init /\ [][NextConc]_vars

(***************************************************************************)
(* SpecLive: one connection whose handler goroutine keeps running: a read  *)
(* for which the bytes are there or the stream has ended returns, and so   *)
(* does every write.  Nothing is assumed of the peer.                      *)
(***************************************************************************)
NextLive ==
    \E c \in {1} :
        \/ PeerRequest(c, OneRequest)
        \/ PeerSend(c, FewFrames, FALSE)
        \/ PeerEnd(c, FewCuts, FALSE)
        \/ Handshake(c)
        \/ ReadStep(c)
        \/ WriteHeader(c)
        \/ WritePayload(c)

Fairness ==
    /\ WF_vars(ReadStep(1))
    /\ WF_vars(WriteHeader(1))
    /\ WF_vars(WritePayload(1))

SpecLive == Init /\ [][NextLive]_vars /\ Fairness

(***************************************************************************)
(* SpecRT: the codec alone.  writeFrame writes the header and the payload  *)
(* of a frame onto a stream, readFrame then reads that stream to its end.  *)
(* The payload lengths are the ones at which writeFrame changes the form   *)
(* of the length field.                                                    *)
(***************************************************************************)
RTLengths == {0, 125, 126, 65535, 65536}
RTOpcodes == {1, 2, 8, 9}
RTSeeds == {0, 101, 255}
RTData(n, seed) == [i \in 1..n |-> (seed + i * 7) % 256]

InitRT ==
    /\ ConnInit
    /\ rtPc = "start"
    /\ rtOp \in RTOpcodes
    /\ rtPayload \in {RTData(n, sd) : n \in RTLengths, sd \in RTSeeds}
    /\ rtWire = <<>>
    /\ rtRes = [st |-> "none"]
    /\ NoReply

RTWriteHeader ==
    /\ rtPc = "start"
    /\ rtWire' = rtWire \o FrameHeader(rtOp, Len(rtPayload))
    /\ rtPc' = "header"
    /\ UNCHANGED <<rtOp, rtPayload, rtRes, rtIn, rtPeer, rtEpc, rtOut>>
    /\ UNCHANGED connVars

RTWritePayload ==
    /\ rtPc = "header"
    /\ rtWire' = rtWire \o rtPayload
    /\ rtPc' = "written"
    /\ UNCHANGED <<rtOp, rtPayload, rtRes, rtIn, rtPeer, rtEpc, rtOut>>
    /\ UNCHANGED connVars

RTRead ==
    /\ rtPc = "written"
    /\ rtRes' = readFrame(rtWire, TRUE)
    /\ rtPc' = "read"
    /\ UNCHANGED <<rtOp, rtPayload, rtWire, rtIn, rtPeer, rtEpc, rtOut>>
    /\ UNCHANGED connVars

NextRT == RTWriteHeader \/ RTWritePayload \/ RTRead

SpecRT == InitRT /\ [][NextRT]_vars

(***************************************************************************)
(* The codec on one frame of a peer.  The frame is given byte by byte:     *)
(* first byte b0 (FIN, RSV1-3, opcode), MASK bit, length form, the upper   *)
(* four bytes hi of a 64-bit length, masking key, payload.  The server     *)
(* reads it with readFrame and replies as the loop does: nothing after an  *)
(* error, writeCloseFrame(conn, 0x8, "bye") to a close frame, writeFrame   *)
(* (conn, op, payload) otherwise.                                          *)
(***************************************************************************)
PeerWire(f) ==
    LET l == Len(f.data)
        ext == IF f.form = 16 THEN <<(l \div 256) % 256, l % 256>>
               ELSE IF f.form = 64
                    THEN f.hi \o <<(l \div 16777216) % 256, (l \div 65536) % 256,
                                   (l \div 256) % 256, l % 256>>
                    ELSE <<>>
    IN  <<f.b0, (IF f.masked THEN 128 ELSE 0) + PeerLen7(f)>>
        \o ext
        \o (IF f.masked THEN f.key \o PeerMask(f.data, f.key) ELSE f.data)

ReplyArgs(r) ==
    IF IsCloseOp(r.opcode)
    THEN [opcode |-> opClose, payload |-> ClosePayload(closeReplyCode, byeReason)]
    ELSE [opcode |-> r.opcode, payload |-> r.payload]

EchoRead ==
    /\ rtEpc = "read"
    /\ rtRes' = readFrame(rtPeer, TRUE)
    /\ rtEpc' = IF IsErr(rtRes'.st) THEN "done" ELSE "writeHeader"
    /\ UNCHANGED <<rtPc, rtOp, rtPayload, rtWire, rtIn, rtPeer, rtOut>>
    /\ UNCHANGED connVars

EchoWriteHeader ==
    /\ rtEpc = "writeHeader"
    /\ rtOut' = rtOut \o FrameHeader(ReplyArgs(rtRes).opcode, Len(ReplyArgs(rtRes).payload))
    /\ rtEpc' = AfterHeaderWrite
    /\ UNCHANGED <<rtPc, rtOp, rtPayload, rtWire, rtRes, rtIn, rtPeer>>
    /\ UNCHANGED connVars

EchoWritePayload ==
    /\ rtEpc = "writePayload"
    /\ rtOut' = rtOut \o ReplyArgs(rtRes).payload
    /\ rtEpc' = "replied"
    /\ UNCHANGED <<rtPc, rtOp, rtPayload, rtWire, rtRes, rtIn, rtPeer>>
    /\ UNCHANGED connVars

(***************************************************************************)
(* SpecEcho: one peer frame of every header shape: RSV bits set or not,    *)
(* FIN set or not, masked or not, each length form, payload lengths at the *)
(* boundaries of the forms, a 64-bit length with any upper four bytes.     *)
(***************************************************************************)
EchoFirstBytes == {129, 130, 241, 194, 1, 136, 137}
EchoHighBytes == {<<0, 0, 0, 0>>, <<0, 0, 0, 1>>, <<255, 255, 255, 255>>}
EchoShapes(short, long, longest) ==
    {[form |-> 7, hi |-> <<>>, len |-> n] : n \in short}
    \cup {[form |-> 16, hi |-> <<>>, len |-> n] : n \in long}
    \cup {[form |-> 64, hi |-> h, len |-> n] : h \in EchoHighBytes, n \in longest}

EchoFrames(firstBytes, shapes) ==
    {[b0 |-> b, masked |-> m, key |-> PeerKey, form |-> sh.form, hi |-> sh.hi,
      data |-> RTData(sh.len, 0)] :
        b \in firstBytes, m \in BOOLEAN, sh \in shapes}

EchoInputs ==
    EchoFrames(EchoFirstBytes, EchoShapes({0, 125}, {MaxPayload, 126}, {MaxPayload}))
    \cup EchoFrames({130}, EchoShapes({}, {65535}, {65536}))

RTIdle ==
    /\ ConnInit
    /\ rtPc = "off"
    /\ rtOp = 0
    /\ rtPayload = <<>>
    /\ rtWire = <<>>
    /\ rtRes = [st |-> "none"]
    /\ rtOut = <<>>

InitEcho ==
    /\ RTIdle
    /\ rtIn \in EchoInputs
    /\ rtPeer = PeerWire(rtIn)
    /\ rtEpc = "read"

NextEcho == EchoRead \/ EchoWriteHeader \/ EchoWritePayload

SpecEcho == InitEcho /\ [][NextEcho]_vars

(***************************************************************************)
(* SpecMask: the unmasking step of readFrame alone, on payloads of every   *)
(* length up to MaxMaskLen and several keys: applied once to the payload,  *)
(* once more to the result, and, inside readFrame, to the frame in which a *)
(* peer has masked that payload with that key.                             *)
(***************************************************************************)
MaskKeys ==
    {<<0, 0, 0, 0>>, PeerKey, <<255, 255, 255, 255>>, <<1, 2, 4, 8>>, <<0, 255, 0, 255>>}

MaskInputs ==
    {[b0 |-> 129, masked |-> TRUE, key |-> k, form |-> 7, hi |-> <<>>,
      data |-> RTData(n, sd)] :
        k \in MaskKeys, n \in 0..MaxMaskLen, sd \in RTSeeds}

InitMask ==
    /\ ConnInit
    /\ rtIn \in MaskInputs
    /\ rtPeer = PeerWire(rtIn)
    /\ rtEpc = "read"
    /\ rtPc = "mask"
    /\ rtOp = 0
    /\ rtPayload = <<>>
    /\ rtWire = <<>>
    /\ rtRes = [st |-> "none"]
    /\ rtOut = <<>>

UnmaskOnce ==
    /\ rtPc = "mask"
    /\ rtWire' = Unmask(rtIn.data, rtIn.key)
    /\ rtPc' = "once"
    /\ UNCHANGED <<rtOp, rtPayload, rtRes, rtIn, rtPeer, rtEpc, rtOut>>
    /\ UNCHANGED connVars

UnmaskTwice ==
    /\ rtPc = "once"
    /\ rtOut' = Unmask(rtWire, rtIn.key)
    /\ rtPc' = "twice"
    /\ UNCHANGED <<rtOp, rtPayload, rtRes, rtIn, rtPeer, rtEpc, rtWire>>
    /\ UNCHANGED connVars

NextMask == UnmaskOnce \/ UnmaskTwice \/ EchoRead

SpecMask == InitMask /\ [][NextMask]_vars

(***************************************************************************)
(* SpecClose: writeCloseFrame alone, on several status codes and reasons,  *)
(* next to the reply of the loop to a peer close frame that carries that   *)
(* status code and reason.                                                 *)
(***************************************************************************)
CloseCodes == {0, 8, 255, 256, 1000, 1001, 65535}
CloseReasons == {Prefix(Text, n) : n \in 0..MaxReason} \cup {byeReason}
CloseInputs ==
    {[code |-> cd, reason |-> rs, b0 |-> 136, masked |-> m, key |-> PeerKey,
      form |-> 7, hi |-> <<>>, data |-> <<cd \div 256, cd % 256>> \o rs] :
        cd \in CloseCodes, rs \in CloseReasons, m \in BOOLEAN}

InitClose ==
    /\ ConnInit
    /\ rtIn \in CloseInputs
    /\ rtPeer = PeerWire(rtIn)
    /\ rtEpc = "read"
    /\ rtPc = "close"
    /\ rtOp = 0
    /\ rtPayload = <<>>
    /\ rtWire = <<>>
    /\ rtRes = [st |-> "none"]
    /\ rtOut = <<>>

(* writeCloseFrame: the payload it builds and its call of writeFrame *)
RTCloseFrame ==
    /\ rtPc = "close"
    /\ rtOp' = opClose
    /\ rtPayload' = ClosePayload(rtIn.code, rtIn.reason)
    /\ rtPc' = "start"
    /\ UNCHANGED <<rtWire, rtRes, rtIn, rtPeer, rtEpc, rtOut>>
    /\ UNCHANGED connVars

NextClose ==
    \/ RTCloseFrame
    \/ RTWriteHeader
    \/ RTWritePayload
    \/ EchoRead
    \/ EchoWriteHeader
    \/ EchoWritePayload

SpecClose == InitClose /\ [][NextClose]_vars

(***************************************************************************)
(* What the claims are stated with.                                        *)
(***************************************************************************)
Last(s) == s[Len(s)]

(* The bytes of a sequence of writeFrame calls that all succeeded. *)
RECURSIVE Wire(_)
Wire(cs) ==
    IF cs = <<>> THEN <<>>
    ELSE Wire(Prefix(cs, Len(cs) - 1)) \o writeFrame(Last(cs).opcode, Last(cs).payload)

(* The reply a peer expects to its frame f when the server echoes it: an
   unmasked final frame of the same opcode with f's data (shorter than 126
   bytes in this model), written out byte by byte. *)
EchoOf(f) == <<128 + f.opcode, Len(f.data)>> \o f.data

RECURSIVE Echoes(_, _)
Echoes(fs, n) == IF n = 0 THEN <<>> ELSE Echoes(fs, n - 1) \o EchoOf(fs[n])

(* The close reply as it appears on the wire. *)
CloseReplyWire == <<136, 5, 0, 8, 98, 121, 101>>

(* The readFrame calls of connection c that returned a frame to echo. *)
EchoedCount(c) ==
    Cardinality({i \in 1..Len(frames[c]) :
                    frames[c][i].st = "ok" /\ frames[c][i].opcode # opClose})

(* The loop of connection c has received a close frame. *)
CloseSeen(c) ==
    \E i \in 1..Len(frames[c]) : frames[c][i].st = "ok" /\ frames[c][i].opcode = opClose

(* C1. Echo: every frame the loop decodes with an opcode other than close
   is answered by one writeFrame call with the opcode and the unmasked data
   of the frame the peer sent; the bytes written are that one reply frame,
   after the complete replies to the frames before it; and when the write
   succeeds the handler is back at readFrame with the stream open. *)
C1_EchoState ==
    \A c \in Conns :
        LET n == EchoedCount(c) IN
        /\ n <= Len(sent[c]) /\ n <= Len(calls[c])
        /\ \A i \in 1..n :
              /\ frames[c][i].st = "ok" /\ frames[c][i].opcode # opClose
              /\ calls[c][i] = [opcode |-> sent[c][i].opcode, payload |-> sent[c][i].data]
        /\ n > 0 => IsPrefix(Echoes(sent[c], n - 1), out[c])
        /\ (n > 0 /\ Len(frames[c]) = n) => IsPrefix(out[c], Echoes(sent[c], n))
        /\ (Len(frames[c]) = n /\ pc[c] = "read") => out[c] = Echoes(sent[c], n)
        /\ (Len(frames[c]) > n /\ ~werr[c]) => IsPrefix(Echoes(sent[c], n), out[c])

C1_EchoStep ==
    \A c \in Conns :
        (pc[c] = "writePayload" /\ ~closing[c] /\ pc'[c] # pc[c] /\ ~werr'[c])
            => (pc'[c] = "read" /\ closed'[c] = 0 /\ out'[c] = out[c] \o payload[c])

C1_Echo == [](C1_EchoState) /\ [][C1_EchoStep]_vars

C1_Witness ==
    /\ pc[1] = "read"
    /\ Len(frames[1]) = 2
    /\ sent[1][1].opcode = 1 /\ sent[1][1].masked /\ Len(sent[1][1].data) = MaxPayload
    /\ sent[1][2].opcode = 9
    /\ out[1] = Echoes(sent[1], 2)

(* C2. Close handshake: once the loop has received a close frame it reads
   nothing more from the stream, it makes exactly one more writeFrame call,
   the close reply, nothing but the bytes of that reply follows the earlier
   replies on the wire, and when the handler has returned the reply is
   complete (unless its write failed) and the stream is closed. *)
C2_CloseState ==
    \A c \in Conns :
        CloseSeen(c) =>
            LET k == Len(frames[c]) IN
            /\ Last(frames[c]).st = "ok" /\ Last(frames[c]).opcode = opClose
            /\ \A i \in 1..(k - 1) : frames[c][i].opcode # opClose
            /\ pos[c] = Last(frames[c]).start + 2
            /\ Len(calls[c]) = k
            /\ Last(calls[c]) = [opcode |-> 8, payload |-> <<0, 8, 98, 121, 101>>]
            /\ pc[c] \in {"writeHeader", "writePayload", "done"}
            /\ IsPrefix(Echoes(sent[c], k - 1), out[c])
            /\ IsPrefix(out[c], Echoes(sent[c], k - 1) \o CloseReplyWire)
            /\ pc[c] = "done" =>
                  /\ closed[c] = 1
                  /\ ~werr[c] => out[c] = Echoes(sent[c], k - 1) \o CloseReplyWire

C2_CloseStep ==
    \A c \in Conns :
        CloseSeen(c) =>
            /\ pos'[c] = pos[c]
            /\ frames'[c] = frames[c]
            /\ calls'[c] = calls[c]

C2_CloseHandshake == [](C2_CloseState) /\ [][C2_CloseStep]_vars

C2_Witness ==
    /\ CloseSeen(1)
    /\ pc[1] = "done"
    /\ ~werr[1]
    /\ Len(frames[1]) = 1
    /\ Len(sent[1]) = 2
    /\ Len(inp[1]) > pos[1]
    /\ out[1] = CloseReplyWire

(* C3. Ordering on one connection: readFrame calls take the stream in
   order, without gaps; the i-th writeFrame call answers the i-th frame
   read, which is the i-th frame the peer sent; at most the last reply is
   incomplete on the wire; and whenever a readFrame call returns, every
   earlier reply has been written completely, header and payload. *)
C3_OrderState ==
    \A c \in Conns :
        LET n == Len(calls[c]) IN
        /\ n = Cardinality({i \in 1..Len(frames[c]) : frames[c][i].st = "ok"})
        /\ \A i \in 1..Len(frames[c]) :
              frames[c][i].start = IF i = 1 THEN 0
                                   ELSE frames[c][i - 1].start + frames[c][i - 1].n
        /\ \A i \in 1..n :
              /\ calls[c][i].opcode = frames[c][i].opcode
              /\ frames[c][i].opcode = sent[c][i].opcode
        /\ n > 0 => /\ IsPrefix(Wire(Prefix(calls[c], n - 1)), out[c])
                    /\ IsPrefix(out[c], Wire(calls[c]))
        /\ pc[c] = "read" => out[c] = Wire(calls[c])

C3_OrderStep ==
    \A c \in Conns :
        (pos'[c] # pos[c] \/ frames'[c] # frames[c]) => out[c] = Wire(calls[c])

C3_Ordering == [](C3_OrderState) /\ [][C3_OrderStep]_vars

C3_Witness ==
    /\ Len(frames[1]) = 2
    /\ Len(calls[1]) = 2
    /\ Len(calls[1][1].payload) = MaxPayload
    /\ pc[1] = "writePayload"
    /\ out[1] = Wire(Prefix(calls[1], 1)) \o FrameHeader(op[1], Len(payload[1]))

(* C4. Stream release: conn.Close() runs exactly once when the handler
   returns after a successful Hijack, whatever ended the loop, and never
   otherwise; nothing is read from or written to a closed stream. *)
C4_ReleaseState ==
    \A c \in Conns :
        /\ closed[c] <= 1
        /\ (hijacked[c] /\ pc[c] = "done") => closed[c] = 1
        /\ closed[c] >= 1 => (hijacked[c] /\ pc[c] = "done")

C4_ReleaseStep ==
    \A c \in Conns :
        closed[c] >= 1 =>
            (closed'[c] = closed[c] /\ pos'[c] = pos[c] /\ out'[c] = out[c]
             /\ frames'[c] = frames[c] /\ calls'[c] = calls[c])

C4_StreamRelease == [](C4_ReleaseState) /\ [][C4_ReleaseStep]_vars

C4_Witness ==
    /\ hijacked[1] /\ pc[1] = "done" /\ closed[1] = 1
    /\ werr[1] /\ closing[1]
    /\ Len(frames[1]) = 2

(* C5. Decode failure: a readFrame call that returns an error (a read cut
   short by the end of the stream, or a frame with fin=false) is the last
   thing the loop does: the step writes nothing and makes no writeFrame
   call, the handler has returned, no later readFrame call exists, and the
   wire holds exactly the complete replies to the earlier frames.  A data
   frame the peer sent with fin=false fails in this way, and so does a
   frame the peer was cut off in. *)
C5_FailState ==
    \A c \in Conns : \A i \in 1..Len(frames[c]) :
        /\ frames[c][i].st # "ok" =>
              /\ i = Len(frames[c])
              /\ pc[c] = "done" /\ closed[c] = 1
              /\ Len(calls[c]) = i - 1
              /\ out[c] = Echoes(sent[c], i - 1)
        /\ (i <= Len(sent[c]) /\ ~sent[c][i].fin /\ sent[c][i].opcode # opClose)
              => frames[c][i].st = "frag"
        /\ i > Len(sent[c]) => frames[c][i].st = "err"

C5_FailStep ==
    \A c \in Conns :
        (frames'[c] # frames[c] /\ Last(frames'[c]).st # "ok")
            => (out'[c] = out[c] /\ calls'[c] = calls[c] /\ pc'[c] = "done")

C5_DecodeFailure == [](C5_FailState) /\ [][C5_FailStep]_vars

C5_Witness ==
    /\ Len(frames[1]) = 2
    /\ frames[1][2].st = "frag"
    /\ out[1] = EchoOf(sent[1][1])
    /\ Len(out[1]) > 2
    /\ pc[1] = "done"

(* C6. A frame the peer sent with fin=false is rejected by readFrame with
   the fragmentation error, whatever its opcode, and every frame readFrame
   hands to the loop without an error had fin=true. *)
C6_FinFalseRejected ==
    \A c \in Conns : \A i \in 1..Len(frames[c]) :
        /\ (i <= Len(sent[c]) /\ ~sent[c][i].fin) => frames[c][i].st = "frag"
        /\ frames[c][i].st = "ok" => frames[c][i].fin

(* C7. A successful readFrame call takes from the stream exactly the bytes
   of the frame the peer sent: 2 header bytes, the extended length, the
   masking key and the payload. *)
C7_ExactConsumption ==
    \A c \in Conns : \A i \in 1..Len(frames[c]) :
        (frames[c][i].st = "ok" /\ i <= Len(sent[c]) /\ sent[c][i].fin)
            => frames[c][i].n = PeerSize(sent[c][i])

(* C8. Round trip: readFrame on the bytes writeFrame wrote for an opcode
   and a payload of length 0, 125, 126, 65535 or 65536 returns that opcode
   and that payload and has read all the bytes; the length field is inline
   up to 125, 16-bit up to 65535 and the 8-byte form above. *)
C8_RoundTrip ==
    rtPc = "read" =>
        LET l == Len(rtPayload) IN
        /\ rtRes.st = "ok"
        /\ rtRes.opcode = rtOp
        /\ rtRes.payload = rtPayload
        /\ rtRes.n = Len(rtWire)
        /\ rtWire[2] = (IF l <= 125 THEN l ELSE IF l <= 65535 THEN 126 ELSE 127)
        /\ Len(rtWire) = l + (IF l <= 125 THEN 2 ELSE IF l <= 65535 THEN 4 ELSE 10)

(* C9. Handshake rejection: a request whose Connection header is not
   exactly "Upgrade" or whose Upgrade header is not exactly "websocket" is
   answered with 400 "Not a websocket upgrade request"; one that passes but
   has no Sec-WebSocket-Key with 400 "Bad WebSocket handshake"; in both
   cases WriteHeader(101) is never called, no upgrade header is set, the
   stream is not taken over, and nothing is read from or written to the
   connection, whatever the peer has sent behind its request. *)
C9_Untouched(c) ==
    /\ whCalls[c] = <<400>>
    /\ respHdr[c] = {}
    /\ ~hijacked[c]
    /\ pc[c] = "done"
    /\ pos[c] = 0 /\ out[c] = <<>> /\ frames[c] = <<>> /\ calls[c] = <<>>
    /\ closed[c] = 0

C9_HandshakeRejection ==
    \A c \in Conns :
        pc[c] \notin {"idle", "handler"} =>
            /\ (req[c].Connection # "Upgrade" \/ req[c].Upgrade # "websocket")
                  => (errBody[c] = "Not a websocket upgrade request" /\ C9_Untouched(c))
            /\ (req[c].Connection = "Upgrade" /\ req[c].Upgrade = "websocket"
                  /\ req[c].Key = "")
                  => (errBody[c] = "Bad WebSocket handshake" /\ C9_Untouched(c))

C9_Witness ==
    /\ pc[1] = "done"
    /\ req[1].Connection = "keep-alive, Upgrade"
    /\ req[1].Upgrade = "websocket"
    /\ req[1].Key # ""
    /\ Len(sent[1]) = MaxFrames
    /\ eof[1]

(* C10. Connection independence: what a handler has read, the writeFrame
   calls it has made and the bytes on its connection follow from the bytes
   the peer sent on that same connection; a step changes the state of one
   connection only; and a handler at readFrame whose own stream holds the
   bytes the call needs (or has ended) can take its step, whatever the
   other connection is doing. *)
ConnState(c) ==
    <<pc[c], req[c], whCalls[c], respHdr[c], errBody[c], hijacked[c], inp[c], eof[c],
      pos[c], op[c], payload[c], closing[c], out[c], closed[c], sent[c], frames[c],
      calls[c], werr[c]>>

C10_OwnStream ==
    \A c \in Conns :
        /\ \A i \in 1..Len(frames[c]) :
              LET r == readFrame(Drop(inp[c], frames[c][i].start), eof[c]) IN
              /\ frames[c][i].st = r.st
              /\ frames[c][i].opcode = r.opcode
              /\ frames[c][i].payload = r.payload
              /\ frames[c][i].n = r.n
        /\ pos[c] <= Len(inp[c])
        /\ LET n == Len(calls[c]) IN
           /\ n <= Len(sent[c])
           /\ \A i \in 1..n :
                 calls[c][i] = IF sent[c][i].opcode = opClose
                               THEN [opcode |-> 8, payload |-> <<0, 8, 98, 121, 101>>]
                               ELSE [opcode |-> sent[c][i].opcode,
                                     payload |-> sent[c][i].data]
           /\ IsPrefix(out[c], Wire(calls[c]))
           /\ ~werr[c] /\ pc[c] \in {"read", "done"} => out[c] = Wire(calls[c])

C10_NeverBlocked ==
    \A c \in Conns :
        (pc[c] = "read" /\ readFrame(Drop(inp[c], pos[c]), eof[c]).st # "block")
            => ENABLED ReadStep(c)

C10_OneConnPerStep ==
    \A c, d \in Conns :
        (c # d /\ ConnState(c)' # ConnState(c)) => ConnState(d)' = ConnState(d)

C10_Independence ==
    [](C10_OwnStream /\ C10_NeverBlocked) /\ [][C10_OneConnPerStep]_vars

C10_Witness ==
    /\ pc[1] = "read" /\ ~eof[1] /\ pos[1] = Len(inp[1]) /\ Len(frames[1]) = 1
    /\ pc[2] = "done" /\ closed[2] = 1 /\ Len(calls[2]) = 2 /\ closing[2] /\ ~werr[2]
    /\ out[1] # <<>> /\ out[2] = Wire(calls[2])

(***************************************************************************)
(* C11: masking is its own inverse.  Applying the unmasking step twice     *)
(* with the same key gives back the original bytes; one application gives  *)
(* the bytes a peer puts on the wire when it masks the payload with that   *)
(* key; and the payload readFrame returns for the masked frame is the      *)
(* payload the peer masked.                                                *)
(***************************************************************************)
C11_MaskSelfInverse ==
    /\ rtPc \in {"once", "twice"} => rtWire = Drop(rtPeer, 6)
    /\ rtPc = "twice" => rtOut = rtIn.data
    /\ rtEpc = "writeHeader" =>
          /\ rtRes.st = "ok"
          /\ rtRes.payload = rtIn.data
          /\ rtRes.n = Len(rtPeer)

C11_Witness ==
    /\ rtPc = "twice"
    /\ rtEpc = "writeHeader"
    /\ Len(rtIn.data) > 4
    /\ \A i \in 1..Len(rtIn.data) : rtWire[i] # rtIn.data[i]
    /\ rtOut = rtIn.data
    /\ rtRes.payload = rtIn.data

(***************************************************************************)
(* C12: the accept key.  Whenever the handler has answered a valid upgrade *)
(* request with 101, the response carries exactly one Sec-WebSocket-Accept *)
(* header and its value is base64(sha1(key + magicGUID)): for the key      *)
(* "dGhlIHNhbXBsZSBub25jZQ==" the string "s3pPLMBiTxaQ9kYGzzhZRbK+xOo=",   *)
(* for "x3JJHMbDL1EzLkh9GBhXDw==" the string "HSmrc0sMlYUkAGmm5OPpG2HaGWk=",*)
(* for "a" the string "FtgH8qqfEKHvZKEZYEWkYDhlXNY=" (reference values,    *)
(* written as their ASCII bytes).                                          *)
(***************************************************************************)
C12_Expected(key) ==
    CASE key = SampleKey ->
            <<115, 51, 112, 80, 76, 77, 66, 105, 84, 120, 97, 81, 57, 107, 89, 71,
              122, 122, 104, 90, 82, 98, 75, 43, 120, 79, 111, 61>>
      [] key = OtherKey ->
            <<72, 83, 109, 114, 99, 48, 115, 77, 108, 89, 85, 107, 65, 71, 109, 109,
              53, 79, 80, 112, 71, 50, 72, 97, 71, 87, 107, 61>>
      [] key = ShortKey ->
            <<70, 116, 103, 72, 56, 113, 113, 102, 69, 75, 72, 118, 90, 75, 69, 90,
              89, 69, 87, 107, 89, 68, 104, 108, 88, 78, 89, 61>>

C12_AcceptHeaders(c) == {h \in respHdr[c] : h[1] = "Sec-WebSocket-Accept"}

C12_AcceptKey ==
    \A c \in Conns :
        StatusSwitchingProtocols \in {whCalls[c][i] : i \in 1..Len(whCalls[c])} =>
            /\ req[c].Key \in Keys
            /\ C12_AcceptHeaders(c) = {<<"Sec-WebSocket-Accept", C12_Expected(req[c].Key)>>}

C12_Witness ==
    /\ hijacked[1]
    /\ req[1].Key = SampleKey
    /\ whCalls[1] = <<StatusSwitchingProtocols>>
    /\ <<"Sec-WebSocket-Accept",
         <<115, 51, 112, 80, 76, 77, 66, 105, 84, 120, 97, 81, 57, 107, 89, 71,
           122, 122, 104, 90, 82, 98, 75, 43, 120, 79, 111, 61>>>> \in respHdr[1]

(* C13. For every frame readFrame returns without an error, close frames
   included, the payload it returns is as long as the payload length the
   frame header declares. *)
C13_PayloadLength ==
    \A c \in Conns : \A i \in 1..Len(frames[c]) :
        (frames[c][i].st = "ok" /\ i <= Len(sent[c]) /\ sent[c][i].fin)
            => Len(frames[c][i].payload) = Len(sent[c][i].data)

(***************************************************************************)
(* C14: the close frame.  writeCloseFrame(w, code, reason) writes one      *)
(* frame: 0x88, the payload length 2 + len(reason), the two bytes of the   *)
(* code high byte first, the reason.  The reply of the loop to a close     *)
(* frame is 88 05 00 08 'b' 'y' 'e' whatever status code and reason the    *)
(* close frame of the peer carries.                                        *)
(***************************************************************************)
C14_CloseReply ==
    /\ rtPc = "written" =>
          rtWire = <<136, 2 + Len(rtIn.reason), rtIn.code \div 256, rtIn.code % 256>>
                   \o rtIn.reason
    /\ rtEpc \in {"writeHeader", "writePayload", "replied"} =>
          /\ rtRes.st = "ok"
          /\ ReplyArgs(rtRes) = [opcode |-> 8, payload |-> <<0, 8, 98, 121, 101>>]
    /\ rtEpc = "replied" => rtOut = <<136, 5, 0, 8, 98, 121, 101>>

C14_Witness ==
    /\ rtPc = "written"
    /\ rtIn.code = 1000
    /\ Len(rtIn.reason) = MaxReason
    /\ rtWire = <<136, 2 + MaxReason, 3, 232>> \o rtIn.reason
    /\ rtEpc = "replied"
    /\ rtOut = <<136, 5, 0, 8, 98, 121, 101>>
    /\ Len(rtPeer) > 6

(***************************************************************************)
(* C15: every frame the server writes is well formed.  For a peer frame    *)
(* with any first byte (RSV bits set or not), masked or not, in any length *)
(* form, the reply has in byte 0 FIN=1, RSV1-3=0 and the opcode of the     *)
(* peer frame, in byte 1 the MASK bit 0, then the length field: the length *)
(* itself below 126; 126 and 2 big-endian bytes up to 0xFFFF; 127, four    *)
(* zero bytes and 4 big-endian bytes above; then exactly the payload: the  *)
(* peer's payload, or 00 08 'b' 'y' 'e' in the reply to a close frame.     *)
(***************************************************************************)
C15_WellFormed ==
    LET opc == rtIn.b0 % 16
        p == IF opc = 8 THEN <<0, 8, 98, 121, 101>> ELSE rtIn.data
        l == Len(p)
        hdr == IF l < 126 THEN 2 ELSE IF l <= 65535 THEN 4 ELSE 10
        o == rtOut
    IN  /\ rtEpc \in {"writePayload", "replied"} =>
              /\ Len(o) >= hdr
              /\ o[1] = 128 + opc
              /\ o[2] < 128
              /\ l < 126 => o[2] = l
              /\ (l >= 126 /\ l <= 65535) =>
                     o[2] = 126 /\ (o[3] * 256) + o[4] = l
              /\ l > 65535 =>
                     /\ o[2] = 127
                     /\ SubSeq(o, 3, 6) = <<0, 0, 0, 0>>
                     /\ (o[7] * 16777216) + (o[8] * 65536) + (o[9] * 256) + o[10] = l
        /\ rtEpc = "writePayload" => Len(o) = hdr
        /\ rtEpc = "replied" => Drop(o, hdr) = p

C15_Witness ==
    /\ rtEpc = "replied"
    /\ rtIn.b0 = 241
    /\ rtIn.masked
    /\ Len(rtIn.data) = 126
    /\ SubSeq(rtOut, 1, 4) = <<129, 126, 0, 126>>
    /\ Len(rtOut) = 130

(* C16. When the request is a valid upgrade request and Hijack fails, the
   status the peer observes is 500, the loop is never entered, and no frame
   is read or written. *)
C16_TakeoverFailure ==
    \A c \in Conns :
        (pc[c] = "done" /\ IsUpgradeRequest(req[c]) /\ HasKey(req[c]) /\ ~hijacked[c])
            => /\ ObservedStatus(whCalls[c]) = StatusInternalServerError
               /\ frames[c] = <<>>
               /\ calls[c] = <<>>
               /\ out[c] = <<>>
               /\ pos[c] = 0

(***************************************************************************)
(* C17: write failure.  writeFrame writes the header, then the payload.    *)
(* When the header write fails the handler returns without attempting the  *)
(* payload write: less than the header is on the wire.  When either write  *)
(* fails, in an echo or in the close reply, the handler has returned and   *)
(* the stream is closed; the wire holds the earlier replies and a part of  *)
(* the failed one; afterwards there is no retry, no further readFrame call *)
(* and nothing more is written.                                            *)
(***************************************************************************)
C17_FailState ==
    \A c \in Conns :
        werr[c] =>
            /\ pc[c] = "done" /\ closed[c] = 1
            /\ calls[c] # <<>>
            /\ Len(frames[c]) = Len(calls[c])
            /\ IsPrefix(Wire(Prefix(calls[c], Len(calls[c]) - 1)), out[c])
            /\ IsPrefix(out[c], Wire(calls[c]))
            /\ out[c] # Wire(calls[c]) \/ Last(calls[c]).payload = <<>>

C17_FailStep ==
    \A c \in Conns :
        /\ werr[c] =>
              /\ out'[c] = out[c] /\ calls'[c] = calls[c] /\ frames'[c] = frames[c]
              /\ pos'[c] = pos[c] /\ pc'[c] = pc[c] /\ closed'[c] = closed[c]
        /\ (~werr[c] /\ werr'[c]) =>
              /\ pc[c] \in {"writeHeader", "writePayload"}
              /\ pc'[c] = "done" /\ closed'[c] = 1
              /\ calls'[c] = calls[c] /\ frames'[c] = frames[c]
              /\ pc[c] = "writeHeader" =>
                    /\ IsPrefix(out[c], out'[c])
                    /\ Len(out'[c]) - Len(out[c]) < Len(FrameHeader(op[c], Len(payload[c])))
        /\ (pc[c] = "writeHeader" /\ pc'[c] = "writePayload") =>
              /\ ~werr'[c]
              /\ out'[c] = out[c] \o FrameHeader(op[c], Len(payload[c]))

C17_WriteFailure == [](C17_FailState) /\ [][C17_FailStep]_vars

C17_Witness ==
    /\ werr[1]
    /\ pc[1] = "done" /\ closed[1] = 1
    /\ Len(calls[1]) = 2
    /\ calls[1][2].opcode = opClose
    /\ Len(out[1]) = Len(Wire(Prefix(calls[1], 1))) + 4

(* C18. When the 7-bit length of a frame is 126, readFrame reads exactly 2
   more bytes and takes their big-endian value as the payload length; when
   it is 127, readFrame reads exactly 8 more bytes and takes the big-endian
   value of the last 4 as the payload length, whatever the first 4 are.
   The bytes read are then the 2 header bytes, the extension, the masking
   key if any, and that many payload bytes. *)
C18_ExtendedLength ==
    rtEpc \in {"done", "writeHeader", "writePayload", "replied"} =>
        LET l == Len(rtIn.data)
            keyN == IF rtIn.masked THEN 4 ELSE 0
        IN  /\ rtIn.form = 16 =>
                  /\ rtRes.n = 2 + 2 + keyN + l
                  /\ Len(rtRes.payload) = l
            /\ rtIn.form = 64 =>
                  /\ rtRes.n = 2 + 8 + keyN + l
                  /\ Len(rtRes.payload) = l

(***************************************************************************)
(* C19: masking is not enforced.  A peer frame with MASK=0, fin=1 and an   *)
(* opcode other than close is returned by readFrame without an error: it   *)
(* has read the header, the extended length and the payload and no masking *)
(* key, and the payload is the peer's bytes as they are.  The loop passes  *)
(* it to writeFrame with the same opcode, the reply on the wire is the one *)
(* a masked frame with that payload gets, and the handler goes on: it has  *)
(* returned after this frame only if a write of the reply failed.          *)
(***************************************************************************)
C19_Unmasked(c, i) ==
    /\ i <= Len(sent[c])
    /\ ~sent[c][i].masked
    /\ sent[c][i].fin
    /\ sent[c][i].opcode # opClose

C19_MaskNotEnforced ==
    \A c \in Conns : \A i \in 1..Len(frames[c]) :
        C19_Unmasked(c, i) =>
            LET f == sent[c][i]
                extN == IF f.form = 16 THEN 2 ELSE IF f.form = 64 THEN 8 ELSE 0
            IN  /\ frames[c][i].st = "ok"
                /\ frames[c][i].opcode = f.opcode
                /\ frames[c][i].payload = f.data
                /\ frames[c][i].n = 2 + extN + Len(f.data)
                /\ Len(calls[c]) >= i
                /\ calls[c][i] = [opcode |-> f.opcode, payload |-> f.data]
                /\ (i < Len(frames[c]) \/ pc[c] = "read") =>
                       IsPrefix(Echoes(sent[c], i), out[c])
                /\ (i = Len(frames[c]) /\ ~werr[c]) =>
                       /\ pc[c] \in {"writeHeader", "writePayload", "read"}
                       /\ closed[c] = 0

C19_Witness ==
    /\ Len(frames[1]) = 2
    /\ Len(sent[1]) = 2
    /\ C19_Unmasked(1, 1)
    /\ sent[1][1].data # <<>>
    /\ sent[1][2].masked
    /\ sent[1][2].data = sent[1][1].data
    /\ sent[1][2].opcode = sent[1][1].opcode
    /\ sent[1][2].form = sent[1][1].form
    /\ pc[1] = "read"
    /\ out[1] = EchoOf(sent[1][1]) \o EchoOf(sent[1][1])
    /\ closed[1] = 0

(***************************************************************************)
(* C20: termination.  With reads and writes that return, once the handler  *)
(* owns the stream and the peer has sent a close frame or a frame with     *)
(* fin=false, or has ended the stream, or a write has failed, the handler  *)
(* eventually returns and the stream is closed.  And the loop ends for no  *)
(* other reason: a handler that has returned after Hijack had a write fail *)
(* or had readFrame return an error or a close frame last; as long as all  *)
(* frames returned are non-close frames without error and no write has     *)
(* failed the handler is in the loop and the stream is open.               *)
(***************************************************************************)
C20_Trigger(c) ==
    /\ hijacked[c]
    /\ \/ eof[c]
       \/ werr[c]
       \/ \E i \in 1..Len(sent[c]) : sent[c][i].opcode = opClose \/ ~sent[c][i].fin

C20_Closed(c) == pc[c] = "done" /\ closed[c] = 1

C20_OnlyReasons ==
    \A c \in Conns :
        /\ (hijacked[c] /\ pc[c] = "done") =>
              \/ werr[c]
              \/ /\ frames[c] # <<>>
                 /\ \/ Last(frames[c]).st # "ok"
                    \/ Last(frames[c]).opcode = opClose
        /\ (/\ hijacked[c]
            /\ ~werr[c]
            /\ \A i \in 1..Len(frames[c]) :
                  /\ frames[c][i].st = "ok"
                  /\ frames[c][i].fin
                  /\ frames[c][i].opcode # opClose)
              => (pc[c] \in {"read", "writeHeader", "writePayload"} /\ closed[c] = 0)

C20_Termination ==
    /\ [](C20_OnlyReasons)
    /\ \A c \in Conns : C20_Trigger(c) ~> C20_Closed(c)

C20_Witness ==
    /\ C20_Closed(1)
    /\ ~werr[1]
    /\ ~eof[1]
    /\ Len(sent[1]) = 2
    /\ sent[1][1].fin /\ sent[1][1].opcode # opClose
    /\ sent[1][2].opcode = opClose
    /\ out[1] = EchoOf(sent[1][1]) \o CloseReplyWire

====
